---- MODULE Spec2Model ----
(***************************************************************************)
(* Model of go-generator-lib's GeneratorImpl                               *)
(* (internal/implementation/implementation.go): the three calls            *)
(* WriteRenderSpecWithDefaults, WriteRenderSpecWithValues and Render, the  *)
(* parameter resolution and validation they share, and the template loop.  *)
(*                                                                         *)
(* Text is a sequence of one-character strings.  A template source is a    *)
(* sequence of tokens: a literal character, the action {{.name}} ("ref"),  *)
(* the action {{.name.x}} ("field") and an unterminated action ("bad").    *)
(* A value (Go interface{}) is nil, a string, an int or a map with the     *)
(* single key x.                                                           *)
(***************************************************************************)
EXTENDS Integers, Sequences, FiniteSets, TLC

\* ---------------------------------------------------------------- bounds
MaxTemplates == 2
MaxItems == 3

\* ---------------------------------------------------------------- values
Nil == [t |-> "nil", s |-> <<>>, n |-> 0]

StrVal(text) == [t |-> "str", s |-> text, n |-> 0]

IntVal(i) == [t |-> "int", s |-> <<>>, n |-> i]

MapVal(text) == [t |-> "map", s |-> text, n |-> 0]

DigitChars == <<"0", "1", "2", "3", "4", "5", "6", "7", "8", "9">>

RECURSIVE Itoa(_)
Itoa(i) ==
  IF i < 10 THEN <<DigitChars[i + 1]>>
  ELSE Itoa(i \div 10) \o <<DigitChars[(i % 10) + 1]>>

NoValueText == <<"<", "n", "o", " ", "v", "a", "l", "u", "e", ">">>

NilText == <<"<", "n", "i", "l", ">">>

\* fmt.Sprintf("%v", val)
Sprintf(val) ==
  CASE val.t = "str" -> val.s
    [] val.t = "int" -> Itoa(val.n)
    [] val.t = "map" -> <<"m", "a", "p", "[", "x", ":">> \o val.s \o <<"]">>
    [] OTHER -> NilText

\* what text/template prints for the value of an action
printValue(val) ==
  IF val.t = "nil" THEN NoValueText ELSE Sprintf(val)

\* a fetch on a map missing key produces nil
Lookup(parameters, k) ==
  IF k \in DOMAIN parameters THEN parameters[k] ELSE Nil

\* parameters[k] = v
MapSet(parameters, k, v) ==
  [n \in (DOMAIN parameters) \cup {k} |-> IF n = k THEN v ELSE parameters[n]]

\* ------------------------------------------------------------- templates
NameText(name) ==
  CASE name = "name" -> <<"n", "a", "m", "e">>
    [] name = "item" -> <<"i", "t", "e", "m">>
    [] name = "count" -> <<"c", "o", "u", "n", "t">>
    [] OTHER -> <<"e", "n", "v">>

Lit(text) == [i \in 1..Len(text) |-> [k |-> "lit", v |-> text[i]]]

Ref(name) == <<[k |-> "ref", v |-> name]>>

Field(name) == <<[k |-> "field", v |-> name]>>

Bad == <<[k |-> "bad", v |-> ""]>>

\* template.Parse: an unterminated action is a parse error
parseFails(contents) == \E i \in 1..Len(contents) : contents[i].k = "bad"

\* evaluating .name.x needs .name to be a map
tokenFails(parameters, tok) ==
  tok.k = "field" /\ Lookup(parameters, tok.v).t # "map"

tokenText(parameters, tok) ==
  CASE tok.k = "lit" -> <<tok.v>>
    [] tok.k = "ref" -> printValue(Lookup(parameters, tok.v))
    [] tok.k = "field" -> Lookup(parameters, tok.v).s
    [] OTHER -> <<>>

RECURSIVE executeTemplate(_, _)
executeTemplate(parameters, contents) ==
  IF contents = <<>> THEN <<>>
  ELSE tokenText(parameters, Head(contents)) \o executeTemplate(parameters, Tail(contents))

executeFails(parameters, contents) ==
  \E i \in 1..Len(contents) : tokenFails(parameters, contents[i])

\* the string a template source is in the generator spec or the template file
tokenSource(tok) ==
  CASE tok.k = "lit" -> <<tok.v>>
    [] tok.k = "ref" -> <<"{", "{", ".">> \o NameText(tok.v) \o <<"}", "}">>
    [] tok.k = "field" -> <<"{", "{", ".">> \o NameText(tok.v) \o <<".", "x", "}", "}">>
    [] OTHER -> <<"{", "{">>

RECURSIVE SourceText(_)
SourceText(contents) ==
  IF contents = <<>> THEN <<>>
  ELSE tokenSource(Head(contents)) \o SourceText(Tail(contents))

\* renderString: the rendered text, or the empty string and an error
renderString(parameters, templateContents) ==
  IF parseFails(templateContents) THEN [out |-> <<>>, err |-> "parse"]
  ELSE IF executeFails(parameters, templateContents) THEN [out |-> <<>>, err |-> "execute"]
  ELSE [out |-> executeTemplate(parameters, templateContents), err |-> ""]

\* ---------------------------------------------------------------- errors
NoErr == [kind |-> "", arg |-> "", pat |-> ""]

Err(kind, arg) == [kind |-> kind, arg |-> arg, pat |-> ""]

ErrPattern(varName, pattern) == [kind |-> "pattern", arg |-> varName, pat |-> pattern]

\* ------------------------------------------------------ variable specs
\* DefaultValue: absent, a string (a template source, in tpl) or a
\* structured value (a map whose key x holds the text s)
NoDefault == [t |-> "nil", tpl |-> <<>>, s |-> <<>>]

StringDefault(tpl) == [t |-> "str", tpl |-> tpl, s |-> <<>>]

StructuredDefault(text) == [t |-> "map", tpl |-> <<>>, s |-> text]

VariableSpec(default, pattern) == [DefaultValue |-> default, ValidationPattern |-> pattern]

\* map[string]interface{}{}
EmptyMap == [n \in {} |-> Nil]

\* the orders in which `range` may visit the keys of a map
Orders(keys) ==
  {o \in [1..Cardinality(keys) -> keys] : \A i, j \in DOMAIN o : i # j => o[i] # o[j]}

\* ------------------------------------------------------------- patterns
LetterChars ==
  {"a", "b", "c", "d", "e", "f", "g", "h", "i", "j", "k", "l", "m",
   "n", "o", "p", "q", "r", "s", "t", "u", "v", "w", "x", "y", "z",
   "A", "B", "C", "D", "E", "F", "G", "H", "I", "J", "K", "L", "M",
   "N", "O", "P", "Q", "R", "S", "T", "U", "V", "W", "X", "Y", "Z"}

PatLetters == "[a-zA-Z]+"

PatLettersAnchored == "^[a-zA-Z]+$"

PatInvalid == "("

\* regexp.MatchString(pattern, s): reports whether s CONTAINS a match
regexpMatchString(pattern, text) ==
  CASE pattern = PatLetters ->
         [matches |-> \E i \in 1..Len(text) : text[i] \in LetterChars, err |-> FALSE]
    [] pattern = PatLettersAnchored ->
         [matches |-> Len(text) > 0 /\ \A i \in 1..Len(text) : text[i] \in LetterChars,
          err |-> FALSE]
    [] OTHER -> [matches |-> FALSE, err |-> TRUE]

\* --------------------------------------------------- parameter resolver
renderStringDefaultFromTemplate(variableName, defaultStr) ==
  IF parseFails(defaultStr) \/ executeFails(EmptyMap, defaultStr)
  THEN [val |-> Nil, err |-> Err("invalidDefault", variableName)]
  ELSE [val |-> StrVal(executeTemplate(EmptyMap, defaultStr)), err |-> NoErr]

\* the required and pattern checks on one resolved value
validateValue(varName, varSpec, val) ==
  IF val = Nil THEN Err("required", varName)
  ELSE IF varSpec.ValidationPattern = "" THEN NoErr
  ELSE LET m == regexpMatchString(varSpec.ValidationPattern, Sprintf(val))
       IN IF m.err THEN Err("invalidPattern", varName)
          ELSE IF ~m.matches THEN ErrPattern(varName, varSpec.ValidationPattern)
          ELSE NoErr

\* valueOrDefault with the empty string for a missing default in both modes
valueOrDefaultEmpty(k, v, parameters, nilDefault) ==
  IF Lookup(parameters, k) # Nil THEN [val |-> Lookup(parameters, k), err |-> NoErr]
  ELSE IF v.DefaultValue.t = "nil" THEN [val |-> StrVal(<<>>), err |-> NoErr]
  ELSE IF v.DefaultValue.t = "str" THEN renderStringDefaultFromTemplate(k, v.DefaultValue.tpl)
  ELSE [val |-> MapVal(v.DefaultValue.s), err |-> NoErr]

\* valueOrDefault with the rendered default held against the validation pattern
valueOrDefaultValidated(k, v, parameters, nilDefault) ==
  LET d == renderStringDefaultFromTemplate(k, v.DefaultValue.tpl)
  IN IF Lookup(parameters, k) # Nil THEN [val |-> Lookup(parameters, k), err |-> NoErr]
     ELSE IF v.DefaultValue.t = "nil" THEN [val |-> nilDefault, err |-> NoErr]
     ELSE IF v.DefaultValue.t = "str"
     THEN IF d.err = NoErr /\ validateValue(k, v, d.val) # NoErr
          THEN [val |-> Nil, err |-> validateValue(k, v, d.val)]
          ELSE d
     ELSE [val |-> MapVal(v.DefaultValue.s), err |-> NoErr]

\* one pass of the loop of constructRenderSpecWithValuesOrDefaults
valueOrDefault(k, v, parameters, nilDefault) ==
  IF Lookup(parameters, k) # Nil THEN [val |-> Lookup(parameters, k), err |-> NoErr]
  ELSE IF v.DefaultValue.t = "nil" THEN [val |-> nilDefault, err |-> NoErr]
  ELSE IF v.DefaultValue.t = "str" THEN renderStringDefaultFromTemplate(k, v.DefaultValue.tpl)
  ELSE [val |-> MapVal(v.DefaultValue.s), err |-> NoErr]

RECURSIVE constructLoop(_, _, _, _, _)
constructLoop(order, Variables, parameters, nilDefault, acc) ==
  IF order = <<>> THEN [Parameters |-> acc, err |-> NoErr]
  ELSE LET k == Head(order)
           r == valueOrDefault(k, Variables[k], parameters, nilDefault)
       IN IF r.err # NoErr THEN [Parameters |-> EmptyMap, err |-> r.err]
          ELSE constructLoop(Tail(order), Variables, parameters, nilDefault, MapSet(acc, k, r.val))

constructRenderSpecWithValuesOrDefaults(generatorName, genSpec, parameters, nilDefault, order) ==
  LET r == constructLoop(order, genSpec.Variables, parameters, nilDefault, EmptyMap)
  IN [renderSpec |-> [GeneratorName |-> generatorName, Parameters |-> r.Parameters],
      err |-> r.err]

\* the value constructAndValidateParameterMap takes for one variable
valueFromRenderSpec(varName, varSpec, renderSpec) ==
  IF varName \in DOMAIN renderSpec.Parameters
  THEN [val |-> renderSpec.Parameters[varName], err |-> NoErr]
  ELSE IF varSpec.DefaultValue.t = "str"
  THEN renderStringDefaultFromTemplate(varName, varSpec.DefaultValue.tpl)
  ELSE IF varSpec.DefaultValue.t = "map"
  THEN [val |-> MapVal(varSpec.DefaultValue.s), err |-> NoErr]
  ELSE [val |-> Nil, err |-> NoErr]

RECURSIVE validateLoop(_, _, _, _)
validateLoop(order, Variables, renderSpec, acc) ==
  IF order = <<>> THEN [parameters |-> acc, err |-> NoErr]
  ELSE LET varName == Head(order)
           r == valueFromRenderSpec(varName, Variables[varName], renderSpec)
           e == IF r.err # NoErr THEN r.err
                ELSE validateValue(varName, Variables[varName], r.val)
       IN IF e # NoErr THEN [parameters |-> EmptyMap, err |-> e]
          ELSE validateLoop(Tail(order), Variables, renderSpec, MapSet(acc, varName, r.val))

constructAndValidateParameterMap(genSpec, renderSpec, order) ==
  validateLoop(order, genSpec.Variables, renderSpec, EmptyMap)

\* ------------------------------------------------------------ responses
errorResponseToplevel(err) ==
  [Success |-> FALSE, RenderedFiles |-> <<>>, Errors |-> <<err>>]

successResponse(renderedFiles) ==
  [Success |-> TRUE, RenderedFiles |-> renderedFiles, Errors |-> <<>>]

\* errorResponseRender with the first failed file's errors as top-level errors
errorResponseRenderEscalated(renderedFiles) ==
  [Success |-> FALSE, RenderedFiles |-> renderedFiles,
   Errors |-> LET failed == SelectSeq(renderedFiles, LAMBDA f : ~f.Success)
              IN IF failed = <<>> THEN <<>> ELSE failed[1].Errors]

errorResponseRender(renderedFiles) ==
  [Success |-> FALSE, RenderedFiles |-> renderedFiles, Errors |-> <<Err("rendering", "")>>]

successFileResult(relativeFilePath) ==
  [Success |-> TRUE, RelativeFilePath |-> relativeFilePath, Errors |-> <<>>]

errorFileResult(relativeFilePath, err) ==
  [Success |-> FALSE, RelativeFilePath |-> relativeFilePath, Errors |-> <<err>>]

\* ---------------------------------------------------------------- state
VARIABLES
  genSpec,        \* the generator spec stored in the source directory
  readonlyPaths,  \* target paths the target directory refuses to write
  renderSpecFile, \* the render spec file of the target directory
  targetFiles,    \* the files written so far, target path -> contents
  response,       \* the Response of the last call
  call,           \* the last call and its arguments
  trace           \* the units and iterations the last Render went through

vars == <<genSpec, readonlyPaths, renderSpecFile, targetFiles, response, call, trace>>

\* ------------------------------------------------------- collaborators
GeneratorName == "main"

GeneratorNames == {GeneratorName, "notthere"}

\* generatordir.ObtainGeneratorSpec
ObtainGeneratorSpec(generatorName) ==
  IF generatorName = GeneratorName
  THEN [spec |-> genSpec, err |-> NoErr]
  ELSE [spec |-> [Templates |-> <<>>, Variables |-> EmptyMap],
        err |-> Err("genSpecLoad", generatorName)]

RenderSpecFileName == <<"g", ".", "y">>

NoRenderSpecFile == [exists |-> FALSE, GeneratorName |-> "", Parameters |-> EmptyMap]

\* targetdir.WriteRenderSpec, when it succeeds
WrittenRenderSpec(renderSpec) ==
  [exists |-> TRUE, GeneratorName |-> renderSpec.GeneratorName,
   Parameters |-> renderSpec.Parameters]

\* targetdir.ObtainRenderSpec
ObtainRenderSpec ==
  IF renderSpecFile.exists
  THEN [renderSpec |-> [GeneratorName |-> renderSpecFile.GeneratorName,
                        Parameters |-> renderSpecFile.Parameters],
        err |-> NoErr]
  ELSE [renderSpec |-> [GeneratorName |-> "", Parameters |-> EmptyMap],
        err |-> Err("renderSpecLoad", "")]

\* ------------------------------------------------ render spec writers
\* extraneousParameters without the check
extraneousParametersUnchecked(spec, parameters) == {}

\* the keys of the supplied parameters the generator spec does not declare
extraneousParameters(spec, parameters) ==
  {k \in DOMAIN parameters : k \notin DOMAIN spec.Variables}

\* the end of both writers: targetDir.WriteRenderSpec and the response
PersistRenderSpec(renderSpec, writeOk) ==
  IF writeOk
  THEN /\ renderSpecFile' = WrittenRenderSpec(renderSpec)
       /\ response' = successResponse(<<successFileResult(RenderSpecFileName)>>)
  ELSE /\ renderSpecFile' = renderSpecFile
       /\ response' = errorResponseToplevel(Err("write", ""))

Fail(err) ==
  /\ response' = errorResponseToplevel(err)
  /\ renderSpecFile' = renderSpecFile

WriteRenderSpecWithDefaults(generatorName, writeOk) ==
  LET g == ObtainGeneratorSpec(generatorName)
  IN /\ call' = [op |-> "WriteRenderSpecWithDefaults", generatorName |-> generatorName,
                 parameters |-> EmptyMap, writeOk |-> writeOk, reachedTemplates |-> FALSE]
     /\ IF g.err # NoErr THEN Fail(g.err)
        ELSE \E order \in Orders(DOMAIN g.spec.Variables) :
               LET c == constructRenderSpecWithValuesOrDefaults(
                          generatorName, g.spec, EmptyMap, StrVal(<<>>), order)
               IN IF c.err # NoErr THEN Fail(c.err)
                  ELSE PersistRenderSpec(c.renderSpec, writeOk)
     /\ UNCHANGED <<genSpec, readonlyPaths, targetFiles, trace>>

WriteRenderSpecWithValues(generatorName, parameters, writeOk) ==
  LET g == ObtainGeneratorSpec(generatorName)
  IN /\ call' = [op |-> "WriteRenderSpecWithValues", generatorName |-> generatorName,
                 parameters |-> parameters, writeOk |-> writeOk, reachedTemplates |-> FALSE]
     /\ IF g.err # NoErr THEN Fail(g.err)
        ELSE \E order \in Orders(DOMAIN g.spec.Variables) :
               LET c == constructRenderSpecWithValuesOrDefaults(
                          generatorName, g.spec, parameters, Nil, order)
               IN IF c.err # NoErr THEN Fail(c.err)
                  ELSE \E order2 \in Orders(DOMAIN g.spec.Variables) :
                         LET v == constructAndValidateParameterMap(g.spec, c.renderSpec, order2)
                         IN IF v.err # NoErr THEN Fail(v.err)
                            ELSE IF extraneousParameters(g.spec, parameters) # {}
                            THEN \E k \in extraneousParameters(g.spec, parameters) :
                                   Fail(Err("notAllowed", k))
                            ELSE PersistRenderSpec(c.renderSpec, writeOk)
     /\ UNCHANGED <<genSpec, readonlyPaths, targetFiles, trace>>

\* ------------------------------------------------------ template files
TemplateSpec(source, target, condition, justCopy, withItems) ==
  [RelativeSourcePath |-> source, RelativeTargetPath |-> target, Condition |-> condition,
   JustCopy |-> justCopy, WithItems |-> withItems]

\* the template files of the source directory; none.tmpl does not exist
SourceDir ==
  [f \in {"body.tmpl", "bad.tmpl", "field.tmpl"} |->
     CASE f = "body.tmpl" -> Lit(<<"H">>) \o Ref("name")
       [] f = "bad.tmpl" -> Lit(<<"x">>) \o Bad
       [] OTHER -> Field("item")]

\* generatordir.ReadFile
ReadFile(relativeSourcePath) ==
  IF relativeSourcePath \in DOMAIN SourceDir
  THEN [contents |-> SourceDir[relativeSourcePath], err |-> NoErr]
  ELSE [contents |-> <<>>, err |-> Err("read", relativeSourcePath)]

\* templatewrapper.New(justCopy, contents, ...).Parse()
ParseTemplate(justCopy, templateContents) ==
  [justCopy |-> justCopy, contents |-> templateContents,
   err |-> IF ~justCopy /\ parseFails(templateContents) THEN "parse" ELSE ""]

\* templatewrapper.Write: the source bytes as they are, or the executed template
WriteTemplate(tmplw, parameters) ==
  IF tmplw.justCopy THEN [text |-> SourceText(tmplw.contents), err |-> ""]
  ELSE IF executeFails(parameters, tmplw.contents) THEN [text |-> <<>>, err |-> "execute"]
  ELSE [text |-> executeTemplate(parameters, tmplw.contents), err |-> ""]

\* targetdir.WriteFile
WriteFile(files, targetPath, bytes) ==
  IF targetPath \in readonlyPaths THEN [files |-> files, err |-> "write"]
  ELSE [files |-> MapSet(files, targetPath, bytes), err |-> ""]

\* ------------------------------------------------------- template loop
ConditionFalse == {<<"f", "a", "l", "s", "e">>, <<"0">>, <<"n", "o">>, <<"s", "k", "i", "p">>}

\* evaluateCondition that also takes "False" and the empty text for false
evaluateConditionLoose(condition, parameters) ==
  IF condition = <<>> THEN [result |-> TRUE, err |-> ""]
  ELSE LET r == renderString(parameters, condition)
       IN IF r.err # "" THEN [result |-> FALSE, err |-> r.err]
          ELSE [result |-> r.out \notin ConditionFalse \cup {<<"F", "a", "l", "s", "e">>, <<>>},
                err |-> ""]

evaluateCondition(condition, parameters) ==
  IF condition = <<>> THEN [result |-> TRUE, err |-> ""]
  ELSE LET r == renderString(parameters, condition)
       IN IF r.err # "" THEN [result |-> FALSE, err |-> r.err]
          ELSE [result |-> r.out \notin ConditionFalse, err |-> ""]

renderAndWriteFile(parameters, tmplw, files, targetPath) ==
  LET b == WriteTemplate(tmplw, parameters)
  IN IF b.err # "" THEN [files |-> files, err |-> b.err]
     ELSE WriteFile(files, targetPath, b.text)

\* acc holds renderedFiles and allSuccessful, the parameters map the whole
\* Render shares, the target directory's files and the trace.  The trace
\* records each step: its unit and iteration, how far it got, the
\* parameters it ran with and the files before and after it
Log(acc, files, stage, u, counter, emitted) ==
  Append(acc.trace, [unit |-> u, iter |-> counter, stage |-> stage, emitted |-> emitted,
                     parameters |-> acc.parameters, before |-> acc.files, after |-> files])

Emit(acc, files, fileResult, stage, u, counter) ==
  [acc EXCEPT !.renderedFiles = Append(@, fileResult),
              !.allSuccessful = @ /\ fileResult.Success,
              !.files = files,
              !.trace = Log(acc, files, stage, u, counter, TRUE)]

renderSingleTemplateIteration(tplSpec, acc, tmpl, u, counter) ==
  LET p == renderString(acc.parameters, tplSpec.RelativeTargetPath)
      targetPath == p.out
      c == evaluateCondition(tplSpec.Condition, acc.parameters)
      w == renderAndWriteFile(acc.parameters, tmpl, acc.files, targetPath)
  IN IF p.err # ""
     THEN Emit(acc, acc.files, errorFileResult(targetPath, Err("targetPath", p.err)),
               "path", u, counter)
     ELSE IF c.err # ""
     THEN Emit(acc, acc.files, errorFileResult(targetPath, Err("condition", c.err)),
               "condition", u, counter)
     ELSE IF ~c.result
     THEN [acc EXCEPT !.trace = Log(acc, acc.files, "skipped", u, counter, FALSE)]
     ELSE IF w.err # ""
     THEN Emit(acc, w.files, errorFileResult(targetPath, Err("template", w.err)),
               "body", u, counter)
     ELSE Emit(acc, w.files, successFileResult(targetPath), "written", u, counter)

\* itemLoop that stops at the first failed iteration
RECURSIVE itemLoopAborting(_, _, _, _, _)
itemLoopAborting(tplSpec, acc, tmpl, u, counter) ==
  IF counter > Len(tplSpec.WithItems) \/ ~acc.allSuccessful THEN acc
  ELSE itemLoopAborting(tplSpec,
                        renderSingleTemplateIteration(
                          tplSpec,
                          [acc EXCEPT !.parameters = MapSet(@, "item", tplSpec.WithItems[counter])],
                          tmpl, u, counter),
                        tmpl, u, counter + 1)

\* itemLoop that sets the item of the first iteration only
RECURSIVE itemLoopFirstItem(_, _, _, _, _)
itemLoopFirstItem(tplSpec, acc, tmpl, u, counter) ==
  IF counter > Len(tplSpec.WithItems) THEN acc
  ELSE itemLoopFirstItem(tplSpec,
                         renderSingleTemplateIteration(
                           tplSpec,
                           [acc EXCEPT !.parameters = MapSet(@, "item", tplSpec.WithItems[1])],
                           tmpl, u, counter),
                         tmpl, u, counter + 1)

RECURSIVE itemLoop(_, _, _, _, _)
itemLoop(tplSpec, acc, tmpl, u, counter) ==
  IF counter > Len(tplSpec.WithItems) THEN acc
  ELSE itemLoop(tplSpec,
                renderSingleTemplateIteration(
                  tplSpec,
                  [acc EXCEPT !.parameters = MapSet(@, "item", tplSpec.WithItems[counter])],
                  tmpl, u, counter),
                tmpl, u, counter + 1)

\* st holds the parameters map, the files and the trace; the result adds
\* the unit's renderedFiles and allSuccessful
renderSingleTemplate(tplSpec, st, u) ==
  LET src == ReadFile(tplSpec.RelativeSourcePath)
      tmplw == ParseTemplate(tplSpec.JustCopy, src.contents)
      start == [renderedFiles |-> <<>>, allSuccessful |-> TRUE, parameters |-> st.parameters,
                files |-> st.files, trace |-> st.trace]
  IN IF src.err # NoErr
     THEN Emit(start, start.files,
               errorFileResult(SourceText(tplSpec.RelativeTargetPath),
                               Err("load", tplSpec.RelativeSourcePath)), "load", u, 0)
     ELSE IF tmplw.err # ""
     THEN Emit(start, start.files,
               errorFileResult(SourceText(tplSpec.RelativeTargetPath),
                               Err("parse", tplSpec.RelativeSourcePath)), "parse", u, 0)
     ELSE IF Len(tplSpec.WithItems) > 0
     THEN itemLoop(tplSpec, start, tmplw, u, 1)
     ELSE renderSingleTemplateIteration(tplSpec, start, tmplw, u, 0)

\* Collect that keeps the success of the last unit only
CollectLast(acc, r) ==
  [renderedFiles |-> acc.renderedFiles \o r.renderedFiles,
   allSuccessful |-> r.allSuccessful,
   parameters |-> r.parameters, files |-> r.files, trace |-> r.trace]

\* renderedFiles = append(renderedFiles, rendered...); allSuccessful = allSuccessful && success
Collect(acc, r) ==
  [renderedFiles |-> acc.renderedFiles \o r.renderedFiles,
   allSuccessful |-> acc.allSuccessful /\ r.allSuccessful,
   parameters |-> r.parameters, files |-> r.files, trace |-> r.trace]

RECURSIVE templateLoop(_, _, _)
templateLoop(Templates, acc, u) ==
  IF u > Len(Templates) THEN acc
  ELSE templateLoop(Templates, Collect(acc, renderSingleTemplate(Templates[u], acc, u)), u + 1)

renderAllTemplates(spec, parameters, files) ==
  templateLoop(spec.Templates,
               [renderedFiles |-> <<>>, allSuccessful |-> TRUE, parameters |-> parameters,
                files |-> files, trace |-> <<>>],
               1)

\* the end of Render
renderResponse(renderedFiles, allSuccessful) ==
  IF allSuccessful THEN successResponse(renderedFiles) ELSE errorResponseRender(renderedFiles)

RenderCall(reachedTemplates) ==
  [op |-> "Render", generatorName |-> "", parameters |-> EmptyMap, writeOk |-> TRUE,
   reachedTemplates |-> reachedTemplates]

RenderFail(err) ==
  /\ response' = errorResponseToplevel(err)
  /\ call' = RenderCall(FALSE)
  /\ targetFiles' = targetFiles
  /\ trace' = <<>>

Render ==
  LET rs == ObtainRenderSpec
      g == ObtainGeneratorSpec(rs.renderSpec.GeneratorName)
  IN /\ IF rs.err # NoErr THEN RenderFail(rs.err)
        ELSE IF g.err # NoErr THEN RenderFail(g.err)
        ELSE \E order \in Orders(DOMAIN g.spec.Variables) :
               LET v == constructAndValidateParameterMap(g.spec, rs.renderSpec, order)
                   r == renderAllTemplates(g.spec, v.parameters, targetFiles)
               IN IF v.err # NoErr THEN RenderFail(v.err)
                  ELSE /\ response' = renderResponse(r.renderedFiles, r.allSuccessful)
                       /\ call' = RenderCall(TRUE)
                       /\ targetFiles' = r.files
                       /\ trace' = r.trace
     /\ UNCHANGED <<genSpec, readonlyPaths, renderSpecFile>>

\* ------------------------------------------------------- initial states
VarNames == {"name", "count"}

TextAb == <<"a", "b">>

Text1a == <<"1", "a">>

\* the variable declarations the generator specs are built from
VariableSpecs ==
  {VariableSpec(NoDefault, ""),
   VariableSpec(NoDefault, PatLetters),
   VariableSpec(NoDefault, PatLettersAnchored),
   VariableSpec(StringDefault(Lit(<<"1">>)), PatLetters),
   VariableSpec(StringDefault(Bad), ""),
   VariableSpec(StringDefault(Lit(TextAb)), PatInvalid),
   VariableSpec(StringDefault(Ref("name")), ""),
   VariableSpec(StructuredDefault(<<"v">>), "")}

VariableMaps == UNION {[names -> VariableSpecs] : names \in SUBSET VarNames}

\* the parameters a caller supplies: declared names and one undeclared name
SuppliedParameters ==
  {p \in UNION {[names -> {StrVal(TextAb), StrVal(Text1a)}] :
                  names \in SUBSET (VarNames \cup {"extra"})} :
     "extra" \in DOMAIN p => p["extra"] = StrVal(TextAb)}

\* the calls of WriteRenderSpecWithValues
WriteValuesRequests ==
  {[generatorName |-> GeneratorName, parameters |-> p, writeOk |-> TRUE] : p \in SuppliedParameters}
  \cup
  {[generatorName |-> "notthere", parameters |-> [n \in {"name"} |-> StrVal(TextAb)],
    writeOk |-> TRUE],
   [generatorName |-> GeneratorName, parameters |-> [n \in {"name"} |-> StrVal(TextAb)],
    writeOk |-> FALSE]}

Items(n) == [i \in 1..n |-> IntVal(i)]

OutItem == Lit(<<"o", "_">>) \o Ref("item")

OutField == Lit(<<"o", "_">>) \o Field("item")

OutFixed == Lit(<<"f">>)

\* the template units the generator specs are built from
TemplateSpecs ==
  {TemplateSpec("body.tmpl", OutItem, <<>>, FALSE, Items(n)) : n \in {0, MaxItems}}
  \cup
  {TemplateSpec("none.tmpl", OutItem, <<>>, FALSE, Items(2)),
   TemplateSpec("bad.tmpl", OutItem, <<>>, FALSE, Items(2)),
   TemplateSpec("bad.tmpl", OutFixed, <<>>, TRUE, <<>>),
   TemplateSpec("body.tmpl", Bad, <<>>, FALSE, Items(2)),
   TemplateSpec("body.tmpl", OutItem, <<>>, FALSE, <<IntVal(1), IntVal(1)>>),
   TemplateSpec("body.tmpl", OutField, <<>>, FALSE, <<IntVal(1), MapVal(<<"2">>)>>),
   TemplateSpec("field.tmpl", OutItem, <<>>, FALSE, <<IntVal(1), MapVal(<<"2">>)>>),
   TemplateSpec("body.tmpl", OutItem, Ref("item"), FALSE,
                <<StrVal(<<"f", "a", "l", "s", "e">>), IntVal(0), IntVal(1),
                  StrVal(<<"t", "r", "u", "e">>)>>),
   TemplateSpec("body.tmpl", OutItem, Ref("item"), FALSE,
                <<StrVal(<<"n", "o">>), StrVal(<<"s", "k", "i", "p">>),
                  StrVal(<<"F", "a", "l", "s", "e">>)>>),
   TemplateSpec("body.tmpl", OutFixed, Ref("name"), FALSE, <<>>),
   TemplateSpec("body.tmpl", OutFixed, Lit(<<"s", "k", "i", "p">>), FALSE, <<>>),
   TemplateSpec("body.tmpl", OutItem, Bad, FALSE, Items(1))}

TemplateLists == UNION {[1..n -> TemplateSpecs] : n \in 0..MaxTemplates}

\* the variable declarations of the generator specs that have templates
NameOnly == [n \in {"name"} |-> VariableSpec(NoDefault, "")]

NameAndItem ==
  [n \in {"name", "item"} |->
     IF n = "name" THEN VariableSpec(StringDefault(Lit(TextAb)), "")
     ELSE VariableSpec(StringDefault(Lit(<<"v">>)), "")]

RenderSpecFileOf(generatorName, parameters) ==
  WrittenRenderSpec([GeneratorName |-> generatorName, Parameters |-> parameters])

NameAb == [n \in {"name"} |-> StrVal(TextAb)]

\* what surrounds a generator spec when Render is called: the declared
\* variables, the paths that cannot be written and the render spec file
RenderSetups ==
  {[Variables |-> NameOnly, readonly |-> {}, file |-> RenderSpecFileOf(GeneratorName, NameAb)],
   [Variables |-> NameAndItem, readonly |-> {<<"o", "_", "2">>},
    file |-> RenderSpecFileOf(GeneratorName, EmptyMap)]}

\* the setups in which Render fails before it reaches the templates
FailingSetups ==
  {[Variables |-> NameOnly, readonly |-> {}, file |-> f] :
     f \in {NoRenderSpecFile, RenderSpecFileOf("notthere", EmptyMap),
            RenderSpecFileOf(GeneratorName, EmptyMap)}}

NoCall ==
  [op |-> "", generatorName |-> "", parameters |-> EmptyMap, writeOk |-> TRUE,
   reachedTemplates |-> FALSE]

InitCommon ==
  /\ targetFiles = EmptyMap
  /\ response = [Success |-> FALSE, RenderedFiles |-> <<>>, Errors |-> <<>>]
  /\ call = NoCall
  /\ trace = <<>>

\* generators without templates and an empty target directory: the writers
Init ==
  /\ genSpec \in {[Templates |-> <<>>, Variables |-> v] : v \in VariableMaps}
  /\ readonlyPaths = {}
  /\ renderSpecFile = NoRenderSpecFile
  /\ InitCommon

Next ==
  \/ \E generatorName \in GeneratorNames, writeOk \in BOOLEAN :
       WriteRenderSpecWithDefaults(generatorName, writeOk)
  \/ \E rq \in WriteValuesRequests :
       WriteRenderSpecWithValues(rq.generatorName, rq.parameters, rq.writeOk)
  \/ Render

Spec == Init /\ [][Next]_vars

\* generators with templates and a target directory with a render spec: Render
InitRender ==
  /\ \E t \in TemplateLists, e \in RenderSetups \cup FailingSetups :
       /\ e \in FailingSetups => Len(t) = 1
       /\ genSpec = [Templates |-> t, Variables |-> e.Variables]
       /\ readonlyPaths = e.readonly
       /\ renderSpecFile = e.file
  /\ InitCommon

NextRender ==
  \/ WriteRenderSpecWithDefaults(GeneratorName, TRUE)
  \/ Render

SpecRender == InitRender /\ [][NextRender]_vars

\* ===================================================== claims: writers
Declared == DOMAIN genSpec.Variables

WithValuesDone ==
  call.op = "WriteRenderSpecWithValues" /\ call.generatorName = GeneratorName

WithDefaultsDone ==
  call.op = "WriteRenderSpecWithDefaults" /\ call.generatorName = GeneratorName

ToplevelError(err) ==
  /\ response.Success = FALSE
  /\ response.RenderedFiles = <<>>
  /\ response.Errors = <<err>>

\* the error resolve-with-fallback and resolve-and-validate have for the
\* declared variable k under the supplied parameters, NoErr if none
ResolveError(k, parameters) ==
  LET r == valueOrDefault(k, genSpec.Variables[k], parameters, Nil)
  IN IF r.err # NoErr THEN r.err ELSE validateValue(k, genSpec.Variables[k], r.val)

FailingVariables(parameters) == {k \in Declared : ResolveError(k, parameters) # NoErr}

UnknownNames == DOMAIN call.parameters \ Declared

\* C1 as claimed: a supplied name that the generator spec does not declare
\* makes WriteRenderSpecWithValues fail with the unknown-parameter error
\* naming such a name, whatever the other parameters are
C1_UnknownRejectedFirst ==
  (WithValuesDone /\ UnknownNames # {}) =>
    \E k \in UnknownNames : ToplevelError(Err("notAllowed", k))

\* C1 amended: a supplied name that the generator spec does not declare
\* always makes WriteRenderSpecWithValues fail with one top-level error and
\* no file result; the error is the unknown-parameter error naming such a
\* name when every declared variable resolves and validates, and otherwise
\* the resolve or validate error of a declared variable, because the
\* unknown-name check comes after resolve-and-validate
C1_UnknownRejectedAfterValidate ==
  (WithValuesDone /\ UnknownNames # {}) =>
    IF FailingVariables(call.parameters) = {}
    THEN \E k \in UnknownNames : ToplevelError(Err("notAllowed", k))
    ELSE \E k \in FailingVariables(call.parameters) :
           ToplevelError(ResolveError(k, call.parameters))

C1_Witness ==
  /\ WithValuesDone
  /\ UnknownNames # {}
  /\ Declared \cap DOMAIN call.parameters # {}
  /\ \E k \in UnknownNames : ToplevelError(Err("notAllowed", k))

\* the declared variables with neither a default nor a supplied value
MissingVariables(parameters) ==
  {k \in Declared : genSpec.Variables[k].DefaultValue.t = "nil" /\ k \notin DOMAIN parameters}

DefaultRenders(varSpec) ==
  varSpec.DefaultValue.t = "str" =>
    ~parseFails(varSpec.DefaultValue.tpl) /\ ~executeFails(EmptyMap, varSpec.DefaultValue.tpl)

AllDefaultsRender == \A k \in Declared : DefaultRenders(genSpec.Variables[k])

C2_DefaultsPart ==
  (WithDefaultsDone /\ call.writeOk /\ AllDefaultsRender) =>
    \A k \in MissingVariables(EmptyMap) :
      /\ response.Success
      /\ renderSpecFile.exists
      /\ renderSpecFile.Parameters[k] = StrVal(<<>>)

\* C2 as claimed: for every declared variable with neither default nor
\* supplied value WriteRenderSpecWithValues fails with the required-parameter
\* error naming that variable, and WriteRenderSpecWithDefaults succeeds and
\* persists the empty string for it
C2_RequiredNamesEachMissing ==
  /\ WithValuesDone =>
       \A k \in MissingVariables(call.parameters) : ToplevelError(Err("required", k))
  /\ C2_DefaultsPart

\* C2 amended: for every declared variable with neither default nor supplied
\* value WriteRenderSpecWithValues fails with one top-level error, which is
\* the required-parameter error naming that variable or, when another
\* declared variable fails to resolve or validate too, the error of that
\* other variable; WriteRenderSpecWithDefaults persists the empty string
\* for it
C2_RequiredOrOtherFailure ==
  /\ WithValuesDone =>
       \A k \in MissingVariables(call.parameters) :
         \/ ToplevelError(Err("required", k))
         \/ \E o \in FailingVariables(call.parameters) \ {k} :
              ToplevelError(ResolveError(o, call.parameters))
  /\ C2_DefaultsPart

C2_Witness ==
  /\ WithValuesDone
  /\ Cardinality(Declared) = 2
  /\ \E k \in MissingVariables(call.parameters) :
       /\ ToplevelError(Err("required", k))
       /\ FailingVariables(call.parameters) = {k}

\* a match of the whole text, for the two patterns [a-zA-Z]+ and ^[a-zA-Z]+$
FullMatch(text) == Len(text) > 0 /\ \A i \in 1..Len(text) : text[i] \in LetterChars

\* C8: a value for a variable with a validation pattern that does not match
\* the pattern in full is rejected by WriteRenderSpecWithValues and by Render,
\* with the pattern-violation error naming the variable and the pattern
C8_FullMatchRequired ==
  /\ WithValuesDone =>
       \A k \in Declared \cap DOMAIN call.parameters :
         (/\ genSpec.Variables[k].ValidationPattern \in {PatLetters, PatLettersAnchored}
          /\ ~FullMatch(Sprintf(call.parameters[k])))
         => /\ ~response.Success
            /\ Len(response.Errors) = 1
            /\ response.Errors[1].arg = k
                 => response.Errors[1] = ErrPattern(k, genSpec.Variables[k].ValidationPattern)
  /\ (call.op = "Render" /\ renderSpecFile.exists
      /\ renderSpecFile.GeneratorName = GeneratorName) =>
       \A k \in Declared \cap DOMAIN renderSpecFile.Parameters :
         (/\ genSpec.Variables[k].ValidationPattern \in {PatLetters, PatLettersAnchored}
          /\ renderSpecFile.Parameters[k] # Nil
          /\ ~FullMatch(Sprintf(renderSpecFile.Parameters[k])))
         => ~response.Success

ExpectedDefault(varSpec) ==
  CASE varSpec.DefaultValue.t = "nil" -> StrVal(<<>>)
    [] varSpec.DefaultValue.t = "str" -> StrVal(executeTemplate(EmptyMap, varSpec.DefaultValue.tpl))
    [] OTHER -> MapVal(varSpec.DefaultValue.s)

\* C9: WriteRenderSpecWithDefaults never holds a value against a validation
\* pattern: it fails only when a string default does not render or the
\* render spec cannot be written, and otherwise it succeeds and persists,
\* for every declared variable, the rendered default as it is (the empty
\* string when there is no default), whether or not the pattern accepts it
C9_DefaultsNotValidated ==
  WithDefaultsDone =>
    IF ~AllDefaultsRender
    THEN \E k \in Declared :
           ~DefaultRenders(genSpec.Variables[k]) /\ ToplevelError(Err("invalidDefault", k))
    ELSE IF ~call.writeOk THEN ToplevelError(Err("write", ""))
    ELSE /\ response.Success
         /\ response.Errors = <<>>
         /\ renderSpecFile =
              [exists |-> TRUE, GeneratorName |-> GeneratorName,
               Parameters |-> [k \in Declared |-> ExpectedDefault(genSpec.Variables[k])]]

C9_Witness ==
  /\ WithDefaultsDone
  /\ response.Success
  /\ \E k \in Declared :
       /\ genSpec.Variables[k].DefaultValue.t = "str"
       /\ genSpec.Variables[k].ValidationPattern = PatLetters
       /\ ~FullMatch(renderSpecFile.Parameters[k].s)
       /\ renderSpecFile.Parameters[k] = StrVal(<<"1">>)

\* ====================================================== claims: Render
RenderDone == call.op = "Render" /\ call.reachedTemplates

Files == response.RenderedFiles

Templates == genSpec.Templates

\* the steps that emitted a FileResult, in order
Emitted == SelectSeq(trace, LAMBDA e : e.emitted)

FailedStages == {"load", "parse", "path", "condition", "body"}

\* C3: once Render reaches the templates, the Response is successful
\* exactly when every FileResult is, and so it is when there is none
C3_SuccessIffAllFiles ==
  RenderDone => (response.Success <=> \A i \in DOMAIN Files : Files[i].Success)

C3_Witness ==
  /\ RenderDone
  /\ ~response.Success
  /\ Len(Files) >= 2
  /\ ~Files[1].Success
  /\ Files[Len(Files)].Success

C3_WitnessNoFiles ==
  /\ RenderDone
  /\ Len(Templates) > 0
  /\ Files = <<>>
  /\ response.Success

\* C4 as claimed: the Response of a Render has top-level errors only when
\* Render failed before it reached the templates
C4_ToplevelOnlyBeforeTemplates ==
  (call.op = "Render" /\ response.Errors # <<>>) => ~call.reachedTemplates

PreflightKinds ==
  {"renderSpecLoad", "genSpecLoad", "required", "pattern", "invalidDefault", "invalidPattern"}

UnitKinds == {"load", "parse", "targetPath", "condition", "template"}

\* C4 amended: a failure before the templates gives one top-level error of
\* its own and no FileResult; a failure of a unit or iteration is collected
\* into its own FileResult and only there, and the Response then carries,
\* besides the FileResults, exactly one top-level error, the generic "an
\* error occurred during rendering, see individual files"; when no
\* FileResult failed there is no top-level error
C4_UnitErrorsStayInFileResults ==
  call.op = "Render" =>
    IF ~call.reachedTemplates
    THEN /\ ~response.Success
         /\ Files = <<>>
         /\ Len(response.Errors) = 1
         /\ response.Errors[1].kind \in PreflightKinds
    ELSE /\ response.Errors =
              IF \A i \in DOMAIN Files : Files[i].Success THEN <<>>
              ELSE <<[kind |-> "rendering", arg |-> "", pat |-> ""]>>
         /\ Len(Emitted) = Len(Files)
         /\ \A i \in DOMAIN Files :
              IF Emitted[i].stage \in FailedStages
              THEN /\ ~Files[i].Success
                   /\ Len(Files[i].Errors) = 1
                   /\ Files[i].Errors[1].kind \in UnitKinds
              ELSE Files[i].Success /\ Files[i].Errors = <<>>

C4_Witness ==
  /\ RenderDone
  /\ response.Errors = <<[kind |-> "rendering", arg |-> "", pat |-> ""]>>
  /\ \E i \in DOMAIN Files : Files[i].Errors # <<>> /\ Files[i].Errors[1].kind = "template"

\* a unit whose source does not load or does not parse
FailsEarly(t) ==
  \/ t.RelativeSourcePath \notin DOMAIN SourceDir
  \/ ~t.JustCopy /\ parseFails(SourceDir[t.RelativeSourcePath])

\* the steps of unit u: one for a unit that fails early or has no items,
\* else one for each item
StepsOf(u) ==
  IF FailsEarly(Templates[u]) \/ Len(Templates[u].WithItems) = 0 THEN <<<<u, 0>>>>
  ELSE [k \in 1..Len(Templates[u].WithItems) |-> <<u, k>>]

RECURSIVE StepsFrom(_)
StepsFrom(u) == IF u > Len(Templates) THEN <<>> ELSE StepsOf(u) \o StepsFrom(u + 1)

\* the parameters of a step: those of the trace, with the item of the step
StepParameters(e) ==
  IF e.iter = 0 THEN e.parameters
  ELSE MapSet(e.parameters, "item", Templates[e.unit].WithItems[e.iter])

\* the FileResult f is the one the step e has to emit
ResultOfStep(f, e) ==
  IF e.stage \in {"load", "parse"}
  THEN ~f.Success /\ f.RelativeFilePath = SourceText(Templates[e.unit].RelativeTargetPath)
  ELSE /\ f.Success = (e.stage = "written")
       /\ e.stage # "path" =>
            f.RelativeFilePath =
              executeTemplate(StepParameters(e), Templates[e.unit].RelativeTargetPath)

\* C5: whatever fails, Render goes through every unit in declared order and,
\* within a unit, through every item in order; the FileResults are those of
\* the steps in that order; a unit whose source does not load or parse has
\* the one step that emits a failed FileResult with the declared target path
C5_FailuresDoNotAbort ==
  RenderDone =>
    /\ [i \in DOMAIN trace |-> <<trace[i].unit, trace[i].iter>>] = StepsFrom(1)
    /\ \A i \in DOMAIN trace :
         /\ FailsEarly(Templates[trace[i].unit]) <=> trace[i].stage \in {"load", "parse"}
         /\ trace[i].emitted <=> trace[i].stage # "skipped"
    /\ Len(Emitted) = Len(Files)
    /\ \A i \in DOMAIN Files : ResultOfStep(Files[i], Emitted[i])

C5_Witness ==
  /\ RenderDone
  /\ \E i, j \in DOMAIN trace :
       /\ trace[i].stage = "body" /\ trace[j].stage = "written"
       /\ trace[i].unit = trace[j].unit /\ trace[i].iter < trace[j].iter
  /\ \E i, j \in DOMAIN trace :
       /\ trace[i].stage = "load" /\ trace[j].stage = "written"
       /\ trace[i].unit < trace[j].unit

\* the indexes in Files of the FileResults of unit u
FilesOf(u) == {i \in DOMAIN Emitted : Emitted[i].unit = u}

ItemUnits == {u \in DOMAIN Templates : Len(Templates[u].WithItems) > 0 /\ Templates[u].Condition = <<>>}

PrintsItem(tpl) == \E i \in DOMAIN tpl : tpl[i].k = "ref" /\ tpl[i].v = "item"

\* FileResults of unit u: N of them, the k-th for the k-th item
OnePerItem(u) ==
  /\ Cardinality(FilesOf(u)) = Len(Templates[u].WithItems)
  /\ \A i \in FilesOf(u) :
       /\ Emitted[i].iter = Cardinality({j \in FilesOf(u) : j <= i})
       /\ Emitted[i].parameters["item"] = Templates[u].WithItems[Emitted[i].iter]

\* C6 as claimed: a unit with N items and no condition has N FileResults,
\* the k-th for the k-th item, with pairwise distinct paths if the target
\* path prints the item
C6_OnePerItemDistinct ==
  (RenderDone /\ Len(Emitted) = Len(Files)) =>
    \A u \in ItemUnits :
      /\ OnePerItem(u)
      /\ PrintsItem(Templates[u].RelativeTargetPath) =>
           \A i, j \in FilesOf(u) :
             i # j => Files[i].RelativeFilePath # Files[j].RelativeFilePath

\* C6 amended: a unit with N items and no condition whose source loads and
\* parses has N FileResults, the k-th for the k-th item; if the target path
\* prints the item, two of them have distinct paths whenever the path
\* rendered for both and the two items print as different text
C6_OnePerItemDistinctIfItemsDiffer ==
  (RenderDone /\ Len(Emitted) = Len(Files)) =>
    \A u \in ItemUnits :
      ~FailsEarly(Templates[u]) =>
        /\ OnePerItem(u)
        /\ PrintsItem(Templates[u].RelativeTargetPath) =>
             \A i, j \in FilesOf(u) :
               (/\ i # j
                /\ Emitted[i].stage # "path" /\ Emitted[j].stage # "path"
                /\ printValue(Templates[u].WithItems[Emitted[i].iter])
                     # printValue(Templates[u].WithItems[Emitted[j].iter]))
               => Files[i].RelativeFilePath # Files[j].RelativeFilePath

C6_Witness ==
  /\ RenderDone
  /\ Len(Templates) = 1
  /\ Templates[1].WithItems = <<IntVal(1), IntVal(2), IntVal(3)>>
  /\ Templates[1].Condition = <<>>
  /\ Files = <<[Success |-> TRUE, RelativeFilePath |-> <<"o", "_", "1">>, Errors |-> <<>>],
               [Success |-> TRUE, RelativeFilePath |-> <<"o", "_", "2">>, Errors |-> <<>>],
               [Success |-> TRUE, RelativeFilePath |-> <<"o", "_", "3">>, Errors |-> <<>>]>>

C7_SkipTexts == {<<"f", "a", "l", "s", "e">>, <<"0">>, <<"n", "o">>, <<"s", "k", "i", "p">>}

ConditionRenders(e) ==
  /\ ~parseFails(Templates[e.unit].Condition)
  /\ ~executeFails(StepParameters(e), Templates[e.unit].Condition)

ConditionText(e) == executeTemplate(StepParameters(e), Templates[e.unit].Condition)

\* C7: a step whose target path rendered has, with an empty condition or a
\* condition that renders to anything but "false", "0", "no", "skip", one
\* FileResult; with a condition that renders to one of these four it has no
\* FileResult and leaves the files as they are
C7_ConditionLiterals ==
  RenderDone =>
    /\ Len(Emitted) = Len(Files)
    /\ \A i \in DOMAIN trace :
         LET e == trace[i]
         IN (e.stage \notin {"load", "parse", "path"}) =>
              IF Templates[e.unit].Condition = <<>>
              THEN e.emitted /\ e.stage \in {"body", "written"}
              ELSE IF ~ConditionRenders(e) THEN e.emitted /\ e.stage = "condition"
              ELSE IF ConditionText(e) \in C7_SkipTexts
              THEN ~e.emitted /\ e.after = e.before
              ELSE e.emitted /\ e.stage \in {"body", "written"}

C7_Witness ==
  /\ RenderDone
  /\ \E i, j \in DOMAIN trace :
       /\ trace[i].unit = trace[j].unit
       /\ Templates[trace[i].unit].Condition # <<>>
       /\ ConditionText(trace[i]) = <<"s", "k", "i", "p">> /\ ~trace[i].emitted
       /\ ConditionText(trace[j]) = <<"F", "a", "l", "s", "e">> /\ trace[j].stage = "written"

\* the value Render resolves for the declared variable k
ResolvedAtRender(k) == valueFromRenderSpec(k, genSpec.Variables[k], renderSpecFile).val

\* C10: a unit without withItems runs with no item set by Render, also after
\* a unit with withItems, and every declared variable has its resolved value
\* in every step
C10_NoStaleItem ==
  RenderDone =>
    \A i \in DOMAIN trace :
      /\ Len(Templates[trace[i].unit].WithItems) = 0 =>
           IF "item" \in Declared
           THEN trace[i].parameters["item"] = ResolvedAtRender("item")
           ELSE "item" \notin DOMAIN trace[i].parameters
      /\ \A k \in Declared \ {"item"} : trace[i].parameters[k] = ResolvedAtRender(k)

\* the target path expression of the step e does not render
PathFails(e) ==
  /\ ~FailsEarly(Templates[e.unit])
  /\ renderString(StepParameters(e), Templates[e.unit].RelativeTargetPath).err # ""

\* C11: a unit or iteration whose target path expression does not render has
\* exactly one step, which stops at the path, leaves the target files as
\* they were and emits one failed FileResult whose path is the unrendered
\* target path the template unit declares
C11_PathFailureKeepsDeclaredPath ==
  RenderDone =>
    \A i \in DOMAIN Emitted :
      PathFails(Emitted[i]) =>
        /\ Emitted[i].stage = "path"
        /\ Emitted[i].after = Emitted[i].before
        /\ Cardinality({j \in DOMAIN trace :
                          /\ trace[j].unit = Emitted[i].unit
                          /\ trace[j].iter = Emitted[i].iter}) = 1
        /\ i \in DOMAIN Files
        /\ ~Files[i].Success
        /\ Files[i].RelativeFilePath =
             SourceText(Templates[Emitted[i].unit].RelativeTargetPath)

\* C11 without the path: the step stops at the path, writes nothing and
\* emits one failed FileResult
C11_PathFailureStopsIteration ==
  RenderDone =>
    /\ \A j \in DOMAIN trace : PathFails(trace[j]) => trace[j].emitted
    /\ \A i \in DOMAIN Emitted :
         PathFails(Emitted[i]) =>
           /\ Emitted[i].stage = "path"
           /\ Emitted[i].after = Emitted[i].before
           /\ i \in DOMAIN Files
           /\ ~Files[i].Success

C11_PathFailureSeen ==
  /\ RenderDone
  /\ \E i \in DOMAIN Emitted :
       /\ PathFails(Emitted[i])
       /\ Emitted[i].iter > 0
       /\ Files[i].RelativeFilePath = <<>>
       /\ SourceText(Templates[Emitted[i].unit].RelativeTargetPath) # <<>>

====
